---- MODULE Spec2Model ----
(***************************************************************************)
(* Task manager (Django): the Task and Category stores of tasks/models.py  *)
(* and the request handlers of tasks/views.py that read and change them.   *)
(***************************************************************************)
EXTENDS Integers, Sequences, FiniteSets, TLC

\* ------------------------------------------------------------------------
\* Bounds of the model
\* ------------------------------------------------------------------------
MaxTaskId == 2
MaxCatId == 2
MaxTime == 4

\* ------------------------------------------------------------------------
\* Values
\* ------------------------------------------------------------------------
Users == {"alice", "bob"}

\* NULL of a nullable column (category_id, due_date, deleted_at); real primary
\* keys and timestamps start at 1
NULL == 0

STATUS_CHOICES == {0, 1, 2}

PRIORITY_CHOICES == {"none", "low", "medium", "high"}

TaskIds == 1..MaxTaskId
CatIds == 1..MaxCatId

\* "no row": the target of a request that get_object_or_404 did not find
NoRow == [pk |-> 0]

VARIABLES
    tasks,      \* Task table: pk -> row
    cats,       \* Category table: pk -> row
    nextTask,   \* next value of the Task primary-key sequence
    nextCat,    \* next value of the Category primary-key sequence
    now,        \* the time of the latest request that wrote to the database
    last,       \* the latest request and its response; of a request that left
                \* both tables as they were only the response is kept
    undone,     \* the row a soft delete replaced, while the latest requests are
                \* that soft delete and then a restore of the same task
    purged,     \* pks of the Task rows that bulk delete has removed so far
    pending     \* the requests that have loaded their task with
                \* get_object_or_404 and have not reached task.save() yet

vars == <<tasks, cats, nextTask, nextCat, now, last, undone, purged, pending>>

Min(a, b) == IF a < b THEN a ELSE b

\* primary keys a request can name: the allocated ones and the next one, which
\* stands for every pk that was never allocated
TaskPks == 1..Min(nextTask, MaxTaskId)
CatPks == 1..Min(nextCat, MaxCatId)

\* ------------------------------------------------------------------------
\* Text: CharField / TextField values are sequences of characters
\* ------------------------------------------------------------------------
Lower(c) ==
    CASE c = "A" -> "a"
      [] c = "B" -> "b"
      [] OTHER -> c

\* SQL  s LIKE %q% , case-insensitive (the icontains lookup)
icontains(s, q) ==
    \E i \in 0..(Len(s) - Len(q)) :
        \A j \in 1..Len(q) : Lower(s[i + j]) = Lower(q[j])

\* str.isdigit() and int(str) on the request strings the model uses; "sup2" is
\* the one-character string U+00B2, which isdigit() accepts and int() rejects
isdigit(s) == s \in {"0", "1", "2", "7", "sup2"}

IntRaises(s) == s \notin {"0", "1", "2", "7"}

IntOf(s) ==
    CASE s = "0" -> 0
      [] s = "1" -> 1
      [] s = "2" -> 2
      [] s = "7" -> 7

\* a request parameter that is not in the query string / POST body
NoParam == "<absent>"

\* the truth value Python gives a request parameter: None and "" are false
Given(s) == s # NoParam /\ s # ""

Range(seq) == {seq[i] : i \in 1..Len(seq)}

\* the query string of a list request that names no filter and no sort
NoFilters ==
    [category |-> NoParam, status |-> NoParam, priority |-> NoParam, q |-> <<>>,
     sort |-> NoParam, order |-> NoParam]

\* ------------------------------------------------------------------------
\* Rows
\* ------------------------------------------------------------------------
Exists(tbl, pk) == pk \in DOMAIN tbl

Remove(tbl, pks) == [k \in (DOMAIN tbl) \ pks |-> tbl[k]]

Put(tbl, pk, row) == [k \in (DOMAIN tbl) \cup {pk} |-> IF k = pk THEN row ELSE tbl[k]]

\* variant: the lookup by pk alone
TaskOwnedByAnyone(u, pk) == Exists(tasks, pk)

\* get_object_or_404(Task, pk=pk, user=request.user)
TaskOwnedBy(u, pk) == Exists(tasks, pk) /\ tasks[pk].user = u

\* variant: the filter by user alone
ActiveQuerysetNoFlag(u) == {k \in DOMAIN tasks : tasks[k].user = u}

\* Task.objects.filter(user=request.user, is_deleted=False) as a set of pks
ActiveQueryset(u) == {k \in DOMAIN tasks : tasks[k].user = u /\ ~tasks[k].is_deleted}

\* variants: the filter by user alone, and by is_deleted alone
TrashQuerysetNoFlag(u) == {k \in DOMAIN tasks : tasks[k].user = u}

TrashQuerysetNoUser(u) == {k \in DOMAIN tasks : tasks[k].is_deleted}

\* Task.objects.filter(user=request.user, is_deleted=True) as a set of pks
TrashQueryset(u) == {k \in DOMAIN tasks : tasks[k].user = u /\ tasks[k].is_deleted}

\* variant: every category, whoever owns it
CategoryQuerysetAnyUser(u) == DOMAIN cats

\* Category.objects.filter(user=request.user) as a set of pks
CategoryQueryset(u) == {k \in DOMAIN cats : cats[k].user = u}

\* the request log
\* before: the target row as the request found it, kept for soft delete,
\* restore and complete; target: whose row the pk of the request names
Req(op, u, pk, outcome) ==
    [op |-> op, actor |-> u, pk |-> pk, outcome |-> outcome, before |-> NoRow,
     ids |-> {}, removed |-> {}, method |-> "POST", params |-> NoFilters,
     result |-> <<>>, target |-> "-"]

\* 404 from get_object_or_404 / get_queryset
NotFound(op, u, pk) == Req(op, u, pk, "NotFound")

ReadOps == {"list_active", "list_trash"}

\* request.user of a request without a session (AnonymousUser)
Anonymous == "anonymous"
TaskTargetOps == {"edit", "detail", "update_status", "soft_delete", "restore", "complete"}
CategoryTargetOps == {"category_rename", "category_delete"}

Target(tbl, u, pk) ==
    IF ~Exists(tbl, pk) THEN "absent" ELSE IF tbl[pk].user = u THEN "own" ELSE "foreign"

\* a request that changed a row, a list request and a request without a
\* session is logged in full; of any other
\* request that changed nothing the log keeps the response and the target
Respond(r) ==
    /\ LET target == IF r.op \in TaskTargetOps THEN Target(tasks, r.actor, r.pk)
                     ELSE IF r.op \in CategoryTargetOps THEN Target(cats, r.actor, r.pk)
                     ELSE "-"
       IN  last' = IF /\ tasks' = tasks /\ cats' = cats
                      /\ r.op \notin ReadOps /\ r.actor # Anonymous
                   THEN [Req("none", "-", 0, r.outcome) EXCEPT !.target = target]
                   ELSE [r EXCEPT !.target = target]
    /\ undone' = IF /\ r.op = "restore" /\ r.outcome = "ok"
                    /\ last.op = "soft_delete" /\ last.outcome = "ok"
                    /\ last.pk = r.pk /\ last.actor = r.actor
                 THEN last.before
                 ELSE NoRow
    /\ purged' = purged \cup r.removed

\* the response of a request that runs from its first query to its last with
\* no query of another request in between
Log(r) == Respond(r) /\ UNCHANGED pending

\* ------------------------------------------------------------------------
\* Forms
\* ------------------------------------------------------------------------
\* variant: the category field offers the categories of every user
TaskFormValidAnyCategory(u, f) ==
    /\ Len(f.title) > 0
    /\ f.status \in STATUS_CHOICES
    /\ f.priority \in PRIORITY_CHOICES
    /\ (f.category = NULL \/ Exists(cats, f.category))

\* TaskForm.is_valid(): title is required, status and priority are choice
\* fields, and category is a ModelChoiceField over the requesting user's own
\* categories (TaskForm.__init__)
TaskFormValid(u, f) ==
    /\ Len(f.title) > 0
    /\ f.status \in STATUS_CHOICES
    /\ f.priority \in PRIORITY_CHOICES
    /\ (f.category = NULL \/ f.category \in CategoryQueryset(u))

\* CategoryForm.is_valid(): name is required
CategoryFormValid(name) == Len(name) > 0

\* the POST bodies the lifecycle specification submits to the task form
TaskFormInputs ==
    {[title |-> <<"a">>, description |-> <<>>, due_date |-> NULL, status |-> 0,
      category |-> NULL, priority |-> "none"],
     [title |-> <<>>, description |-> <<>>, due_date |-> NULL, status |-> 0,
      category |-> NULL, priority |-> "none"]}
    \cup {[title |-> <<"b">>, description |-> <<"b">>, due_date |-> 1, status |-> 1,
           category |-> c, priority |-> "high"] : c \in CatPks}

CategoryNameInputs == {<<"w">>, <<"p">>, <<>>}

\* new_status values posted to the status endpoint
NewStatusInputs == {NoParam, "2", "7", "x"}

\* ------------------------------------------------------------------------
\* Task handlers
\* ------------------------------------------------------------------------
\* a request that writes comes one unit of time after the one before it; the
\* model takes no such request once the clock is at MaxTime
ClockLeft == now < MaxTime

\* Task.save(): auto_now sets updated_at on every save
Saved(row, t) == [row EXCEPT !.updated_at = t]

\* variant: the lowest pk that no row has
NewTaskPkLowestFree ==
    CHOOSE k \in 1..nextTask : k \notin DOMAIN tasks /\ \A j \in 1..(k - 1) : j \in DOMAIN tasks

\* primary key of a new Task row (AutoField: the sequence is never reset and a
\* deleted pk is not handed out again)
NewTaskPk == nextTask

\* variant: the soft delete also takes the task out of its category
SoftDeletedDropsCategory(row, t) ==
    Saved([row EXCEPT !.is_deleted = TRUE, !.deleted_at = t, !.category = NULL], t)

\* the assignments of TaskDeleteView.post, then save()
SoftDeleted(row, t) == Saved([row EXCEPT !.is_deleted = TRUE, !.deleted_at = t], t)

\* variant: the restore leaves deleted_at as it is
RestoredKeepsDeletedAt(row, t) == Saved([row EXCEPT !.is_deleted = FALSE], t)

\* the assignments of TaskRestoreView.post, then save()
Restored(row, t) == Saved([row EXCEPT !.is_deleted = FALSE, !.deleted_at = NULL], t)

\* two rows that differ in updated_at at most
SameButUpdatedAt(a, b) == [a EXCEPT !.updated_at = NULL] = [b EXCEPT !.updated_at = NULL]

\* the assignment of task_complete, then save()
Completed(row, t) == Saved([row EXCEPT !.status = 2], t)

\* ModelForm.save() on an existing row: the six form fields, then save()
Edited(row, f, t) ==
    Saved([row EXCEPT !.category = f.category, !.title = f.title,
                      !.description = f.description, !.priority = f.priority,
                      !.status = f.status, !.due_date = f.due_date], t)


\* TaskCreateView.post: form_valid sets the owner and saves a new row
TaskCreateView_post(u, f) ==
    IF ~TaskFormValid(u, f)
    THEN /\ UNCHANGED <<tasks, cats, nextTask, nextCat, now>>
         /\ Log(Req("create", u, 0, "invalid"))
    ELSE /\ nextTask <= MaxTaskId
         /\ ClockLeft
         /\ tasks' = Put(tasks, NewTaskPk,
                [user |-> u, category |-> f.category, title |-> f.title,
                 description |-> f.description, priority |-> f.priority,
                 status |-> f.status, due_date |-> f.due_date,
                 is_deleted |-> FALSE, deleted_at |-> NULL,
                 created_at |-> now + 1, updated_at |-> now + 1])
         /\ nextTask' = nextTask + 1
         /\ now' = now + 1
         /\ UNCHANGED <<cats, nextCat>>
         /\ Log(Req("create", u, NewTaskPk, "ok"))

\* TaskUpdateView.post: the object comes from get_queryset (owned, not deleted)
TaskUpdateView_post(u, pk, f) ==
    IF pk \notin ActiveQueryset(u)
    THEN /\ UNCHANGED <<tasks, cats, nextTask, nextCat, now>>
         /\ Log(NotFound("edit", u, pk))
    ELSE IF ~TaskFormValid(u, f)
    THEN /\ UNCHANGED <<tasks, cats, nextTask, nextCat, now>>
         /\ Log(Req("edit", u, pk, "invalid"))
    ELSE /\ ClockLeft
         /\ tasks' = [tasks EXCEPT ![pk] = Edited(@, f, now + 1)]
         /\ now' = now + 1
         /\ UNCHANGED <<cats, nextTask, nextCat>>
         /\ Log(Req("edit", u, pk, "ok"))

\* TaskDetailView.get: the object comes from get_queryset (owned, not deleted)
TaskDetailView_get(u, pk) ==
    /\ UNCHANGED <<tasks, cats, nextTask, nextCat, now>>
    /\ Log(IF pk \in ActiveQueryset(u)
           THEN Req("detail", u, pk, "ok")
           ELSE NotFound("detail", u, pk))

\* TaskUpdateStatusView.post
TaskUpdateStatusView_post(u, pk, new_status) ==
    IF ~TaskOwnedBy(u, pk)
    THEN /\ UNCHANGED <<tasks, cats, nextTask, nextCat, now>>
         /\ Log(NotFound("update_status", u, pk))
    ELSE IF new_status # NoParam /\ ~IntRaises(new_status)
            /\ IntOf(new_status) \in STATUS_CHOICES
    THEN /\ ClockLeft
         /\ tasks' = [tasks EXCEPT ![pk] =
                Saved([@ EXCEPT !.status = IntOf(new_status)], now + 1)]
         /\ now' = now + 1
         /\ UNCHANGED <<cats, nextTask, nextCat>>
         /\ Log(Req("update_status", u, pk, "ok"))
    ELSE /\ UNCHANGED <<tasks, cats, nextTask, nextCat, now>>
         /\ Log(Req("update_status", u, pk, "ok"))

\* TaskDeleteView.post: soft delete
TaskDeleteView_post(u, pk) ==
    IF ~TaskOwnedBy(u, pk)
    THEN /\ UNCHANGED <<tasks, cats, nextTask, nextCat, now>>
         /\ Log(NotFound("soft_delete", u, pk))
    ELSE /\ ClockLeft
         /\ tasks' = [tasks EXCEPT ![pk] = SoftDeleted(@, now + 1)]
         /\ now' = now + 1
         /\ UNCHANGED <<cats, nextTask, nextCat>>
         /\ Log([Req("soft_delete", u, pk, "ok") EXCEPT !.before = tasks[pk]])

\* TaskRestoreView.post
TaskRestoreView_post(u, pk) ==
    IF ~TaskOwnedBy(u, pk)
    THEN /\ UNCHANGED <<tasks, cats, nextTask, nextCat, now>>
         /\ Log(NotFound("restore", u, pk))
    ELSE /\ ClockLeft
         /\ tasks' = [tasks EXCEPT ![pk] = Restored(@, now + 1)]
         /\ now' = now + 1
         /\ UNCHANGED <<cats, nextTask, nextCat>>
         /\ Log([Req("restore", u, pk, "ok") EXCEPT !.before = tasks[pk]])

\* TaskBulkDeleteView.post: task_ids holds the integer values of the posted
\* list; malformed tells whether the list also holds a value that is not an
\* integer literal, for which pk__in=task_ids raises ValueError (HTTP 500).
\* The response and the tables the request leaves.
TaskBulkDeleteView_response(u, task_ids, malformed) ==
    IF malformed
    THEN [outcome |-> "error", tasks |-> tasks, cats |-> cats]
    ELSE [outcome |-> "ok",
          tasks |-> IF task_ids # {}
                    THEN Remove(tasks, TrashQueryset(u) \cap task_ids)
                    ELSE Remove(tasks, TrashQueryset(u)),
          cats |-> cats]

TaskBulkDeleteView_post(u, task_ids, malformed) ==
    LET r == TaskBulkDeleteView_response(u, task_ids, malformed)
    IN  /\ r.tasks # tasks => ClockLeft
        /\ tasks' = r.tasks
        /\ cats' = r.cats
        /\ now' = IF r.tasks # tasks THEN now + 1 ELSE now
        /\ UNCHANGED <<nextTask, nextCat>>
        /\ Log([Req("purge", u, 0, r.outcome) EXCEPT
                    !.ids = task_ids,
                    !.removed = (DOMAIN tasks) \ (DOMAIN tasks')])

\* task_complete(request, pk): the response and the tables the request leaves;
\* saved tells whether it called save()
task_complete_response(u, pk, method) ==
    IF ~TaskOwnedBy(u, pk)
    THEN [outcome |-> "NotFound", saved |-> FALSE, tasks |-> tasks, cats |-> cats]
    ELSE IF method = "POST"
    THEN [outcome |-> "ok", saved |-> TRUE,
          tasks |-> [tasks EXCEPT ![pk] = Completed(@, now + 1)], cats |-> cats]
    ELSE [outcome |-> "ok", saved |-> FALSE, tasks |-> tasks, cats |-> cats]

task_complete(u, pk, method) ==
    LET r == task_complete_response(u, pk, method)
    IN  /\ r.saved => ClockLeft
        /\ tasks' = r.tasks
        /\ cats' = r.cats
        /\ now' = IF r.saved THEN now + 1 ELSE now
        /\ UNCHANGED <<nextTask, nextCat>>
        /\ Log([Req("complete", u, pk, r.outcome) EXCEPT
                    !.method = method,
                    !.before = IF r.saved THEN tasks[pk] ELSE NoRow])

\* task_complete with POST on a task of the actor succeeds, sets status to 2
\* from any status and changes nothing else but updated_at; with another
\* method it changes nothing
CompleteSetsStatusOnly ==
    \A u \in Users, pk \in TaskIds :
        TaskOwnedBy(u, pk) =>
            LET post == task_complete_response(u, pk, "POST")
                get == task_complete_response(u, pk, "GET")
            IN  /\ post.outcome = "ok"
                /\ DOMAIN post.tasks = DOMAIN tasks /\ post.cats = cats
                /\ post.tasks[pk].status = 2
                /\ SameButUpdatedAt(post.tasks[pk], [tasks[pk] EXCEPT !.status = 2])
                /\ tasks[pk].status = 2 => SameButUpdatedAt(post.tasks[pk], tasks[pk])
                /\ \A t \in DOMAIN tasks : t # pk => post.tasks[t] = tasks[t]
                /\ get.tasks = tasks /\ get.cats = cats

\* ------------------------------------------------------------------------
\* Category handlers
\* ------------------------------------------------------------------------
\* CategoryCreateView.post: the response, the table the request leaves and
\* the pk of the new row
CategoryCreateView_response(u, name) ==
    IF ~CategoryFormValid(name)
    THEN [outcome |-> "invalid", cats |-> cats, pk |-> 0]
    ELSE IF \E k \in CategoryQueryset(u) : cats[k].name = name
    THEN [outcome |-> "DuplicateName", cats |-> cats, pk |-> 0]
    ELSE [outcome |-> "ok", cats |-> Put(cats, nextCat, [user |-> u, name |-> name]),
          pk |-> nextCat]

CategoryCreateView_post(u, name) ==
    LET r == CategoryCreateView_response(u, name)
    IN  IF r.outcome # "ok"
        THEN /\ UNCHANGED <<tasks, cats, nextTask, nextCat, now>>
             /\ Log(Req("category_create", u, 0, r.outcome))
        ELSE /\ nextCat <= MaxCatId
             /\ ClockLeft
             /\ cats' = r.cats
             /\ nextCat' = nextCat + 1
             /\ now' = now + 1
             /\ UNCHANGED <<tasks, nextTask>>
             /\ Log(Req("category_create", u, r.pk, "ok"))

\* variant: the duplicate check does not leave the category itself out
CategoryUpdateView_responseNoExclude(u, pk, new_name) ==
    IF pk \notin CategoryQueryset(u)
    THEN [outcome |-> "NotFound", cats |-> cats]
    ELSE IF ~CategoryFormValid(new_name)
    THEN [outcome |-> "invalid", cats |-> cats]
    ELSE IF \E k \in CategoryQueryset(u) : cats[k].name = new_name
    THEN [outcome |-> "DuplicateName", cats |-> cats]
    ELSE [outcome |-> "ok", cats |-> [cats EXCEPT ![pk].name = new_name]]

\* CategoryUpdateView.post: the response and the table the request leaves
CategoryUpdateView_response(u, pk, new_name) ==
    IF pk \notin CategoryQueryset(u)
    THEN [outcome |-> "NotFound", cats |-> cats]
    ELSE IF ~CategoryFormValid(new_name)
    THEN [outcome |-> "invalid", cats |-> cats]
    ELSE IF \E k \in CategoryQueryset(u) \ {pk} : cats[k].name = new_name
    THEN [outcome |-> "DuplicateName", cats |-> cats]
    ELSE [outcome |-> "ok", cats |-> [cats EXCEPT ![pk].name = new_name]]

CategoryUpdateView_post(u, pk, new_name) ==
    LET r == CategoryUpdateView_response(u, pk, new_name)
    IN  IF r.outcome # "ok"
        THEN /\ UNCHANGED <<tasks, cats, nextTask, nextCat, now>>
             /\ Log(Req("category_rename", u, pk, r.outcome))
        ELSE /\ ClockLeft
             /\ cats' = r.cats
             /\ now' = now + 1
             /\ UNCHANGED <<tasks, nextTask, nextCat>>
             /\ Log(Req("category_rename", u, pk, "ok"))

\* variant: only the tasks that are not soft-deleted lose the reference
SET_NULLActiveOnly(tbl, pk) ==
    [k \in DOMAIN tbl |->
        IF tbl[k].category = pk /\ ~tbl[k].is_deleted
        THEN [tbl[k] EXCEPT !.category = NULL]
        ELSE tbl[k]]

\* on_delete=SET_NULL: the UPDATE that clears Task.category of the rows that
\* reference the deleted category
SET_NULL(tbl, pk) ==
    [k \in DOMAIN tbl |->
        IF tbl[k].category = pk THEN [tbl[k] EXCEPT !.category = NULL] ELSE tbl[k]]

\* CategoryDeleteView.post: the row is deleted and, in the same transaction,
\* Task.category (on_delete=SET_NULL) is set to NULL by an UPDATE that does
\* not go through Task.save()
CategoryDeleteView_post(u, pk) ==
    IF pk \notin CategoryQueryset(u)
    THEN /\ UNCHANGED <<tasks, cats, nextTask, nextCat, now>>
         /\ Log(NotFound("category_delete", u, pk))
    ELSE /\ ClockLeft
         /\ cats' = Remove(cats, {pk})
         /\ tasks' = SET_NULL(tasks, pk)
         /\ now' = now + 1
         /\ UNCHANGED <<nextTask, nextCat>>
         /\ Log(Req("category_delete", u, pk, "ok"))

\* ------------------------------------------------------------------------
\* Task list query (TaskListView.get_queryset) and trash list
\* ------------------------------------------------------------------------
\* the filters of get_queryset raise ValueError (HTTP 500) when a value that
\* passed isdigit() is not an integer literal
QueryRaises(p) ==
    \/ (Given(p.category) /\ p.category # "none" /\ isdigit(p.category)
            /\ IntRaises(p.category))
    \/ (Given(p.status) /\ isdigit(p.status) /\ IntRaises(p.status))

\* 2. category filter on one row
CategoryFilter(row, p) ==
    IF ~Given(p.category) THEN TRUE
    ELSE IF p.category = "none" THEN row.category = NULL
    ELSE IF isdigit(p.category) THEN row.category = IntOf(p.category)
    ELSE TRUE

\* 3. status filter on one row
StatusFilter(row, p) ==
    IF Given(p.status) /\ isdigit(p.status)
    THEN row.status = IntOf(p.status)
    ELSE TRUE

\* 4. priority filter on one row
PriorityFilter(row, p) ==
    IF Given(p.priority) THEN row.priority = p.priority ELSE TRUE

\* variant: the search looks at the title only
SearchFilterTitleOnly(row, p) ==
    IF Len(p.q) > 0 THEN icontains(row.title, p.q) ELSE TRUE

\* 5. search filter on one row
SearchFilter(row, p) ==
    IF Len(p.q) > 0
    THEN icontains(row.title, p.q) \/ icontains(row.description, p.q)
    ELSE TRUE

\* steps 1-5 of get_queryset: the pks of the rows the query keeps
FilteredTasks(u, p) ==
    {k \in ActiveQueryset(u) :
        /\ CategoryFilter(tasks[k], p)
        /\ StatusFilter(tasks[k], p)
        /\ PriorityFilter(tasks[k], p)
        /\ SearchFilter(tasks[k], p)}

\* comparison of two column values: -1, 0, 1
CmpInt(x, y) == IF x < y THEN -1 ELSE IF x > y THEN 1 ELSE 0

Neg(c) == 0 - c

\* a nullable column in ascending order; the backend places NULL first
\* (SQLite, MySQL) or last (PostgreSQL)
CmpNullable(x, y, nulls_first) ==
    IF x = NULL /\ y = NULL THEN 0
    ELSE IF x = NULL THEN (IF nulls_first THEN -1 ELSE 1)
    ELSE IF y = NULL THEN (IF nulls_first THEN 1 ELSE -1)
    ELSE CmpInt(x, y)

Ord(c) ==
    CASE c = "A" -> 65
      [] c = "B" -> 66
      [] c = "a" -> 97
      [] c = "b" -> 98
      [] c = "p" -> 112
      [] c = "w" -> 119

RECURSIVE CmpText(_, _)
CmpText(s, t) ==
    IF Len(s) = 0 /\ Len(t) = 0 THEN 0
    ELSE IF Len(s) = 0 THEN -1
    ELSE IF Len(t) = 0 THEN 1
    ELSE IF Ord(Head(s)) # Ord(Head(t)) THEN CmpInt(Ord(Head(s)), Ord(Head(t)))
    ELSE CmpText(Tail(s), Tail(t))

\* variant: low gets the default weight
priority_orderLowDefault(row) ==
    CASE row.priority = "high" -> 3
      [] row.priority = "medium" -> 2
      [] OTHER -> 0

\* the annotation priority_order
priority_order(row) ==
    CASE row.priority = "high" -> 3
      [] row.priority = "medium" -> 2
      [] row.priority = "low" -> 1
      [] row.priority = "none" -> 0
      [] OTHER -> 0

\* variant: no row is flagged
due_date_nullNever(row) == 0

\* the annotation due_date_null
due_date_null(row) == IF row.due_date = NULL THEN 1 ELSE 0

RECURSIVE Lex(_)
Lex(cs) ==
    IF Len(cs) = 0 THEN 0
    ELSE IF Head(cs) # 0 THEN Head(cs)
    ELSE Lex(Tail(cs))

valid_sort_keys == {"due_date", "title", "status", "priority", "created_at"}

\* 6. the ORDER BY clause as a comparison of two rows
OrderBy(a, b, p, nulls_first) ==
    LET sort_key == IF p.sort = NoParam THEN "due_date" ELSE p.sort
        order == IF p.order = NoParam THEN "asc" ELSE p.order
        created_desc == Neg(CmpInt(a.created_at, b.created_at))
        due_asc == CmpNullable(a.due_date, b.due_date, nulls_first)
        field == CASE sort_key = "title" -> CmpText(a.title, b.title)
                   [] sort_key = "status" -> CmpInt(a.status, b.status)
                   [] OTHER -> CmpInt(a.created_at, b.created_at)
    IN  IF sort_key \in valid_sort_keys
        THEN IF sort_key = "priority"
             THEN IF order = "asc"
                  THEN Lex(<<CmpInt(priority_order(a), priority_order(b)),
                             due_asc, created_desc>>)
                  ELSE Lex(<<Neg(CmpInt(priority_order(a), priority_order(b))),
                             due_asc, created_desc>>)
             ELSE IF sort_key = "due_date"
             THEN IF order = "asc"
                  THEN Lex(<<CmpInt(due_date_null(a), due_date_null(b)),
                             due_asc, created_desc>>)
                  ELSE Lex(<<Neg(CmpInt(due_date_null(a), due_date_null(b))),
                             Neg(due_asc), created_desc>>)
             ELSE IF order = "desc"
                  THEN Lex(<<Neg(field), created_desc>>)
                  ELSE Lex(<<field, created_desc>>)
        ELSE Lex(<<CmpInt(due_date_null(a), due_date_null(b)), due_asc,
                   created_desc>>)

\* the sequences without repetition over a set of pks
RECURSIVE Perms(_)
Perms(S) ==
    IF S = {} THEN {<<>>}
    ELSE UNION {{<<k>> \o rest : rest \in Perms(S \ {k})} : k \in S}

\* the result lists the database may return for get_queryset: the kept rows
\* in an order that agrees with ORDER BY (rows equal on every key come in any
\* order)
TaskListView_get_queryset(u, p, nulls_first) ==
    {seq \in Perms(FilteredTasks(u, p)) :
        \A i, j \in 1..Len(seq) :
            i < j => OrderBy(tasks[seq[i]], tasks[seq[j]], p, nulls_first) <= 0}

\* TrashView.get_queryset: order_by('-deleted_at')
TrashView_get_queryset(u) ==
    {seq \in Perms(TrashQueryset(u)) :
        \A i, j \in 1..Len(seq) :
            i < j => tasks[seq[i]].deleted_at >= tasks[seq[j]].deleted_at}

\* TaskListView.get
TaskListView_get(u, p, nulls_first) ==
    /\ UNCHANGED <<tasks, cats, nextTask, nextCat, now>>
    /\ IF QueryRaises(p)
       THEN Log([Req("list_active", u, 0, "error") EXCEPT !.params = p])
       ELSE \E seq \in TaskListView_get_queryset(u, p, nulls_first) :
                Log([Req("list_active", u, 0, "ok") EXCEPT !.params = p,
                                                         !.result = seq])

\* TrashView.get
TrashView_get(u) ==
    /\ UNCHANGED <<tasks, cats, nextTask, nextCat, now>>
    /\ \E seq \in TrashView_get_queryset(u) :
            Log([Req("list_trash", u, 0, "ok") EXCEPT !.result = seq])

\* ------------------------------------------------------------------------
\* Specification
\* ------------------------------------------------------------------------
\* a database in which alice has made a category and one task in it
SeedCats == (1 :> [user |-> "alice", name |-> <<"w">>])

SeedTask ==
    [user |-> "alice", category |-> 1, title |-> <<"b">>, description |-> <<"b">>,
     priority |-> "high", status |-> 1, due_date |-> 1, is_deleted |-> FALSE,
     deleted_at |-> NULL, created_at |-> 1, updated_at |-> 1]

\* the clock when the model starts, one tick after the seeded task was made
StartTime == SeedTask.created_at + 1

\* the empty database, or the seeded one with the task active or soft-deleted
Init ==
    /\ \/ /\ tasks = <<>> /\ cats = <<>> /\ nextTask = 1 /\ nextCat = 1
       \/ /\ tasks \in {(1 :> SeedTask), (1 :> SoftDeleted(SeedTask, StartTime))}
          /\ cats = SeedCats /\ nextTask = 2 /\ nextCat = 2
    /\ now = StartTime
    /\ last = Req("none", "-", 0, "ok")
    /\ undone = NoRow
    /\ purged = {}
    /\ pending = {}

DoTaskCreate == \E u \in Users, f \in TaskFormInputs : TaskCreateView_post(u, f)
DoTaskUpdate == \E u \in Users, pk \in TaskPks, f \in TaskFormInputs : TaskUpdateView_post(u, pk, f)
DoTaskDetail == \E u \in Users, pk \in TaskPks : TaskDetailView_get(u, pk)
DoTaskUpdateStatus == \E u \in Users, pk \in TaskPks, s \in NewStatusInputs : TaskUpdateStatusView_post(u, pk, s)
DoTaskDelete == \E u \in Users, pk \in TaskPks : TaskDeleteView_post(u, pk)
DoTaskRestore == \E u \in Users, pk \in TaskPks : TaskRestoreView_post(u, pk)
DoTaskBulkDelete ==
    \E u \in Users :
        \/ \E ids \in SUBSET TaskPks : TaskBulkDeleteView_post(u, ids, FALSE)
        \/ TaskBulkDeleteView_post(u, {}, TRUE)
DoTaskComplete == \E u \in Users, pk \in TaskPks, m \in {"GET", "POST"} : task_complete(u, pk, m)
DoCategoryCreate == \E u \in Users, n \in CategoryNameInputs : CategoryCreateView_post(u, n)
DoCategoryUpdate == \E u \in Users, pk \in CatPks, n \in CategoryNameInputs : CategoryUpdateView_post(u, pk, n)
DoCategoryDelete == \E u \in Users, pk \in CatPks : CategoryDeleteView_post(u, pk)

Next ==
    \/ DoTaskCreate
    \/ DoTaskUpdate
    \/ DoTaskDetail
    \/ DoTaskUpdateStatus
    \/ DoTaskDelete
    \/ DoTaskRestore
    \/ DoTaskBulkDelete
    \/ DoTaskComplete
    \/ DoCategoryCreate
    \/ DoCategoryUpdate
    \/ DoCategoryDelete

Spec == Init /\ [][Next]_vars

\* ------------------------------------------------------------------------
\* Specification of the list requests: the database is drawn from a set of
\* task tables and stays as it is; the steps are list requests
\* ------------------------------------------------------------------------
\* the largest number of tasks in a drawn table
MaxListed == 2

\* rows a user can have made through the forms: a category is the user's own
QueryRows ==
    {r \in [user : Users, category : {NULL, 1}, title : {<<"A", "b">>, <<"b">>},
            description : {<<>>, <<"a">>}, priority : {"high", "none"},
            status : {0, 2}, due_date : {NULL}, is_deleted : BOOLEAN,
            deleted_at : {NULL, StartTime}, created_at : {1}, updated_at : {StartTime}] :
        /\ r.category # NULL => r.user = SeedCats[r.category].user
        /\ r.deleted_at # NULL <=> r.is_deleted}

\* the rows after the first of a drawn table
MoreRows ==
    {[SeedTask EXCEPT !.updated_at = StartTime],
     [SeedTask EXCEPT !.user = "bob", !.category = NULL, !.updated_at = StartTime]}

QueryStores ==
    {<<>>} \cup
    UNION {{t \in [1..n -> QueryRows \cup MoreRows] :
                /\ t[1] \in QueryRows
                /\ \A k \in 2..n : t[k] \in MoreRows} : n \in 1..MaxListed}

\* the query strings of the list requests
QueryParams ==
    [category : {NoParam, "none", "1", "x"}, status : {NoParam, "2", "x", "sup2"},
     priority : {NoParam, "high", "bogus"}, q : {<<>>, <<"a">>, <<"B">>},
     sort : {NoParam}, order : {NoParam}]

InitQuery ==
    /\ tasks \in QueryStores
    /\ cats = SeedCats
    /\ nextTask = Cardinality(DOMAIN tasks) + 1
    /\ nextCat = 2
    /\ now = StartTime
    /\ last = Req("none", "-", 0, "ok")
    /\ undone = NoRow
    /\ purged = {}
    /\ pending = {}

\* a list request leaves the tables as they are, so that the requests after
\* the first one reach no state the first one does not reach
FirstRequest == last.op = "none"

DoTaskList ==
    /\ FirstRequest
    /\ \E u \in Users, p \in QueryParams, nulls_first \in BOOLEAN :
            TaskListView_get(u, p, nulls_first)

DoTrash == FirstRequest /\ \E u \in Users : TrashView_get(u)

NextQuery ==
    \/ DoTaskList
    \/ DoTrash

QuerySpec == InitQuery /\ [][NextQuery]_vars

\* ------------------------------------------------------------------------
\* Specification of the requests without a session: the database is drawn as
\* for the list requests; the steps are requests to the task and category
\* endpoints by a client that has not logged in
\* ------------------------------------------------------------------------
\* the endpoints whose view class has LoginRequiredMixin
LoginRequired ==
    {"list_active", "create", "edit", "detail", "update_status", "soft_delete",
     "list_trash", "restore", "purge", "category_list", "category_create",
     "category_rename", "category_delete"}

\* the task and category endpoints of urlpatterns
Endpoints == LoginRequired \cup {"complete"}

\* a request without a session: LoginRequiredMixin.dispatch answers with the
\* redirect to the login page before the handler runs; a view without the
\* mixin runs and its first query, filter(user=request.user) with
\* AnonymousUser, raises TypeError (HTTP 500)
AnonymousRequest(endpoint, pk, method) ==
    /\ UNCHANGED <<tasks, cats, nextTask, nextCat, now>>
    /\ Log([Req(endpoint, Anonymous, pk,
                IF endpoint \in LoginRequired THEN "login_redirect" ELSE "error")
            EXCEPT !.method = method])

DoAnonymous ==
    /\ FirstRequest
    /\ \E endpoint \in Endpoints, pk \in TaskPks, method \in {"GET", "POST"} :
            AnonymousRequest(endpoint, pk, method)

NextAnonymous == DoAnonymous

AnonymousSpec == InitQuery /\ [][NextAnonymous]_vars

\* ------------------------------------------------------------------------
\* Specification of the sorted list: alice's active tasks are drawn from rows
\* that differ in the columns ORDER BY reads; the steps are her list requests
\* with a sort key and an order
\* ------------------------------------------------------------------------
\* the largest number of tasks in a drawn table
MaxSorted == 2

SortRow(priority, due_date, created_at, title, status) ==
    [user |-> "alice", category |-> NULL, title |-> title, description |-> <<>>,
     priority |-> priority, status |-> status, due_date |-> due_date,
     is_deleted |-> FALSE, deleted_at |-> NULL, created_at |-> created_at,
     updated_at |-> created_at]

SortRows ==
    {SortRow(pr, d, c, <<"a">>, 0) : pr \in PRIORITY_CHOICES, d \in {NULL, 1, 2}, c \in {1, 2}}
    \cup {SortRow("none", NULL, 1, ti, st) : ti \in {<<"a">>, <<"B">>}, st \in {0, 2}}

\* rows are made in the order of their pks
SortStores ==
    {<<>>} \cup
    UNION {{t \in [1..n -> SortRows] :
                \A i, j \in 1..n : i < j => t[i].created_at <= t[j].created_at}
           : n \in 1..MaxSorted}

SortParams ==
    {[NoFilters EXCEPT !.sort = srt, !.order = ord] :
        srt \in {NoParam, "bogus"} \cup valid_sort_keys,
        ord \in {NoParam, "asc", "desc", "bogus"}}

InitSort ==
    /\ tasks \in SortStores
    /\ cats = <<>>
    /\ nextTask = Cardinality(DOMAIN tasks) + 1
    /\ nextCat = 1
    /\ now = StartTime
    /\ last = Req("none", "-", 0, "ok")
    /\ undone = NoRow
    /\ purged = {}
    /\ pending = {}

DoSortedList ==
    /\ FirstRequest
    /\ \E p \in SortParams, nulls_first \in BOOLEAN :
            TaskListView_get("alice", p, nulls_first)

NextSort == DoSortedList

SortSpec == InitSort /\ [][NextSort]_vars

\* ------------------------------------------------------------------------
\* Requests of several clients: the queries of one request run between the
\* queries of another. The views open no transaction and lock no row.
\* ------------------------------------------------------------------------
\* the number of requests that can stand between their SELECT and their save
MaxPending == 1

\* the views that load a task with get_object_or_404, assign to it and save it
LoadingOps == {"restore", "soft_delete", "complete", "update_status"}

\* task = get_object_or_404(Task, pk=pk, user=request.user): the SELECT; the
\* request keeps the row it read
get_object_or_404(op, u, pk, new_status) ==
    /\ Cardinality(pending) < MaxPending
    /\ IF ~TaskOwnedBy(u, pk)
       THEN /\ UNCHANGED <<tasks, cats, nextTask, nextCat, now, pending>>
            /\ Respond(NotFound(op, u, pk))
       ELSE /\ pending' = pending \cup
                    {[op |-> op, actor |-> u, pk |-> pk, task |-> tasks[pk],
                      new_status |-> new_status]}
            /\ UNCHANGED <<tasks, cats, nextTask, nextCat, now, last, undone, purged>>

\* whether the view reaches task.save(): the status view saves for a
\* new_status that is an integer of STATUS_CHOICES only
Saves(p) ==
    p.op = "update_status" =>
        /\ p.new_status # NoParam /\ ~IntRaises(p.new_status)
        /\ IntOf(p.new_status) \in STATUS_CHOICES

\* the row the view saves: its assignments to the row it read
Assigned(p, t) ==
    CASE p.op = "restore" -> Restored(p.task, t)
      [] p.op = "soft_delete" -> SoftDeleted(p.task, t)
      [] p.op = "complete" -> Completed(p.task, t)
      [] p.op = "update_status" -> Saved([p.task EXCEPT !.status = IntOf(p.new_status)], t)

\* Model.save() of an instance that was read from the table: an UPDATE of the
\* row with that pk, and when the UPDATE matches no row an INSERT of the
\* instance under its pk, on which auto_now_add sets created_at
ModelSave(tbl, pk, row, t) ==
    IF Exists(tbl, pk)
    THEN Put(tbl, pk, row)
    ELSE Put(tbl, pk, [row EXCEPT !.created_at = t])

\* the rest of the view: the assignments, task.save() and the redirect
task_save(p) ==
    /\ IF Saves(p)
       THEN /\ ClockLeft
            /\ tasks' = ModelSave(tasks, p.pk, Assigned(p, now + 1), now + 1)
            /\ now' = now + 1
       ELSE UNCHANGED <<tasks, now>>
    /\ pending' = pending \ {p}
    /\ UNCHANGED <<cats, nextTask, nextCat>>
    /\ Respond([Req(p.op, p.actor, p.pk, "ok") EXCEPT !.before = p.task])

\* the stores the interleaved requests start from: task 1, and task 2 or not
RaceStores ==
    LET rows == {[SeedTask EXCEPT !.user = u, !.category = NULL, !.is_deleted = d,
                                  !.deleted_at = IF d THEN 1 ELSE NULL] :
                    u \in Users, d \in BOOLEAN}
    IN  {(1 :> r) : r \in rows} \cup {(1 :> r) @@ (2 :> q) : r \in rows, q \in rows}

InitRace ==
    /\ tasks \in RaceStores
    /\ cats = <<>>
    /\ nextTask = Cardinality(DOMAIN tasks) + 1
    /\ nextCat = 1
    /\ now = StartTime
    /\ last = Req("none", "-", 0, "ok")
    /\ undone = NoRow
    /\ purged = {}
    /\ pending = {}

DoLoad ==
    \E op \in LoadingOps, u \in Users, pk \in TaskPks, new_status \in NewStatusInputs :
        /\ op # "update_status" => new_status = NoParam
        /\ get_object_or_404(op, u, pk, new_status)

DoSave == \E p \in pending : task_save(p)

NextRace ==
    \/ DoLoad
    \/ DoSave
    \/ DoTaskBulkDelete

RaceSpec == InitRace /\ [][NextRace]_vars

TypeOK == now \in 0..MaxTime

\* ------------------------------------------------------------------------
\* Properties
\* ------------------------------------------------------------------------
\* C1: for every user U and every stored task T of U, T is in the unfiltered
\* active list of U exactly when T.is_deleted is false and in the trash list of
\* U exactly when it is true; a task just soft-deleted is in the trash list and
\* not in the active list; no list of U holds a task of another user.
C1_ListsSplitByDeletedFlag ==
    \A u \in Users, nf \in BOOLEAN :
        /\ TaskListView_get_queryset(u, NoFilters, nf) # {}
        /\ TrashView_get_queryset(u) # {}
        /\ \A active \in TaskListView_get_queryset(u, NoFilters, nf),
              trash \in TrashView_get_queryset(u) :
              /\ \A t \in DOMAIN tasks :
                    IF tasks[t].user = u
                    THEN /\ t \in Range(active) <=> ~tasks[t].is_deleted
                         /\ t \in Range(trash) <=> tasks[t].is_deleted
                    ELSE t \notin Range(active) /\ t \notin Range(trash)
              /\ (last.op = "soft_delete" /\ last.outcome = "ok" /\ last.actor = u)
                    => last.pk \notin Range(active) /\ last.pk \in Range(trash)

\* an active task was soft-deleted while another user has a task
C1_Witness ==
    /\ last.op = "soft_delete" /\ last.outcome = "ok"
    /\ ~last.before.is_deleted
    /\ \E t \in DOMAIN tasks : tasks[t].user # last.actor

\* C2: a task enters the store active; an active task leaves the active state
\* only by soft_delete (to deleted) and is never removed from the store; a
\* deleted task changes state only by restore (to active) or by purge (gone).
C2_DeletionStatusTransitions ==
    [][\A t \in TaskIds :
        /\ (t \notin DOMAIN tasks /\ t \in DOMAIN tasks')
              => (~tasks'[t].is_deleted /\ last'.op = "create")
        /\ (t \in DOMAIN tasks /\ ~tasks[t].is_deleted)
              => /\ t \in DOMAIN tasks'
                 /\ tasks'[t].is_deleted => (last'.op = "soft_delete" /\ last'.pk = t)
        /\ (t \in DOMAIN tasks /\ tasks[t].is_deleted)
              => /\ t \notin DOMAIN tasks' => last'.op = "purge"
                 /\ (t \in DOMAIN tasks' /\ ~tasks'[t].is_deleted)
                        => (last'.op = "restore" /\ last'.pk = t)]_vars

\* a purge removed a task and had the id of an active task of the same user,
\* which is still stored
C2_Witness ==
    /\ last.op = "purge" /\ last.outcome = "ok" /\ last.removed # {}
    /\ \E t \in last.ids \cap DOMAIN tasks :
            tasks[t].user = last.actor /\ ~tasks[t].is_deleted

\* C3: purge(owner, ids) removes exactly the owner's soft-deleted tasks whose
\* id is in ids when ids is non-empty, and all of the owner's soft-deleted
\* tasks when ids is empty; any other id in ids is ignored without error, and
\* every other task and every category is unchanged.
C3_PurgeRemovesExactly ==
    \A owner \in Users, ids \in SUBSET TaskIds :
        LET r == TaskBulkDeleteView_response(owner, ids, FALSE)
            doomed == {t \in DOMAIN tasks :
                            /\ tasks[t].user = owner
                            /\ tasks[t].is_deleted
                            /\ (ids = {} \/ t \in ids)}
        IN  /\ r.outcome = "ok"
            /\ DOMAIN r.tasks = (DOMAIN tasks) \ doomed
            /\ \A t \in DOMAIN r.tasks : r.tasks[t] = tasks[t]
            /\ r.cats = cats

\* a purge with ids that removed a task and ignored an id of a stored task
C3_Witness ==
    /\ last.op = "purge" /\ last.outcome = "ok"
    /\ last.removed # {}
    /\ last.ids \cap DOMAIN tasks # {}

\* C4: once purge has removed task id X, no active list and no trash list of
\* any user returns X, whatever operations follow.
C4_PurgeIsIrreversible ==
    \A x \in purged, u \in Users, nf \in BOOLEAN :
        /\ \A active \in TaskListView_get_queryset(u, NoFilters, nf) : x \notin Range(active)
        /\ \A trash \in TrashView_get_queryset(u) : x \notin Range(trash)

\* a task was created after a purge removed one
C4_Witness ==
    /\ purged # {}
    /\ last.op = "create" /\ last.outcome = "ok"
    /\ \E x \in purged : last.pk > x

\* C5: every stored task has deleted_at set exactly when is_deleted is true.
C5_DeletedAtIffDeleted ==
    \A t \in DOMAIN tasks : tasks[t].deleted_at # NULL <=> tasks[t].is_deleted

\* a soft-deleted task was restored
C5_Witness ==
    /\ last.op = "restore" /\ last.outcome = "ok"
    /\ last.before.is_deleted /\ last.before.deleted_at # NULL
    /\ ~tasks[last.pk].is_deleted

\* C6 as claimed: soft_delete then restore of any task of the actor gives back
\* every attribute but updated_at.
C6_AnyTask ==
    undone # NoRow => SameButUpdatedAt(tasks[last.pk], undone)

\* C6, amended: soft_delete then restore of a task of the actor that was active
\* gives back every attribute but updated_at.
C6_ActiveTask ==
    (undone # NoRow /\ ~undone.is_deleted) => SameButUpdatedAt(tasks[last.pk], undone)

\* an active task in a category was soft-deleted and then restored
C6_Witness ==
    /\ undone # NoRow /\ ~undone.is_deleted /\ undone.category # NULL
    /\ last.op = "restore"
    /\ tasks[last.pk].updated_at # undone.updated_at

\* C7: restore aimed at an active task of the actor changes no attribute of it,
\* updated_at included.
C7_RestoreNeedsDeleted ==
    [][(last'.op = "restore" /\ ~last'.before.is_deleted) => tasks' = tasks]_vars

\* C8: complete on a task of the actor sets status to 2 from any status and is
\* idempotent; stated here is its case of a task that is completed already:
\* the request leaves the task as it was.
C8_CompletedUntouched ==
    \A u \in Users, pk \in TaskIds :
        (TaskOwnedBy(u, pk) /\ tasks[pk].status = 2)
            => task_complete_response(u, pk, "POST").tasks[pk] = tasks[pk]

\* C9: complete, status update, edit, detail, soft_delete, restore aimed at a
\* task, and category rename and delete aimed at a category, that exists but
\* belongs to another user answer NotFound, as they do for an id that does not
\* exist, and change no task and no category.
C9_ForeignIsNotFound ==
    [][last'.target \in {"foreign", "absent"} =>
        /\ last'.outcome = "NotFound"
        /\ tasks' = tasks /\ cats' = cats]_vars

\* a request for a task of another user was answered NotFound, while the same
\* user has a category too
C9_Witness ==
    /\ last.outcome = "NotFound" /\ last.target = "foreign"
    /\ \E t \in DOMAIN tasks, c \in DOMAIN cats : tasks[t].user = cats[c].user

\* a task passes a filter that the query string does not give
PassesCategory(row, c) ==
    \/ ~Given(c)
    \/ c = "none" /\ row.category = NULL
    \/ c # "none" /\ row.category # NULL /\ IntOf(c) = row.category

PassesStatus(row, st) == ~Given(st) \/ IntOf(st) = row.status

PassesPriority(row, pr) == ~Given(pr) \/ row.priority = pr

\* text holds word at some position, letter case put aside
Holds(text, word) ==
    \E i \in 1..(Len(text) + 1 - Len(word)) :
        [j \in 1..Len(word) |-> Lower(text[i + j - 1])] = [j \in 1..Len(word) |-> Lower(word[j])]

PassesSearch(row, q) == q = <<>> \/ Holds(row.title, q) \/ Holds(row.description, q)

\* the category and the status given, if any, are an id / a status number
WellFormed(p) ==
    /\ Given(p.category) => (p.category = "none" \/ ~IntRaises(p.category))
    /\ Given(p.status) => ~IntRaises(p.status)

\* C10: the task query returns exactly the tasks that the requesting user
\* owns, that are not soft-deleted and that pass every filter given (category
\* id, or none for no category; status; priority; search, letter case put
\* aside, in title or description), each once.
C10_QueryReturnsExactlyMatching ==
    (last.op = "list_active" /\ WellFormed(last.params)) =>
        /\ last.outcome = "ok"
        /\ Len(last.result) = Cardinality(Range(last.result))
        /\ Range(last.result) =
                {t \in DOMAIN tasks :
                    /\ tasks[t].user = last.actor
                    /\ ~tasks[t].is_deleted
                    /\ PassesCategory(tasks[t], last.params.category)
                    /\ PassesStatus(tasks[t], last.params.status)
                    /\ PassesPriority(tasks[t], last.params.priority)
                    /\ PassesSearch(tasks[t], last.params.q)}

\* a query with all four filters returned a task found by its description and
\* left out a task of the user that fails the category filter only
C10_Witness ==
    /\ last.op = "list_active" /\ last.outcome = "ok"
    /\ last.params.category = "none" /\ last.params.status = "2"
    /\ last.params.priority = "high" /\ last.params.q = <<"a">>
    /\ \E t \in Range(last.result) : ~Holds(tasks[t].title, <<"a">>)
    /\ \E t \in DOMAIN tasks :
            /\ tasks[t].user = last.actor /\ ~tasks[t].is_deleted
            /\ tasks[t].category # NULL
            /\ t \notin Range(last.result)

\* the order and the sort key a list request asks for, absent ones defaulted
AskedOrder == IF last.params.order = NoParam THEN "asc" ELSE last.params.order

AskedSort == IF last.params.sort = NoParam THEN "due_date" ELSE last.params.sort

Listed(i) == tasks[last.result[i]]

Weight(row) ==
    CASE row.priority = "none" -> 0
      [] row.priority = "low" -> 1
      [] row.priority = "medium" -> 2
      [] row.priority = "high" -> 3

\* C11: with sort=priority the result is ordered by the weight none < low <
\* medium < high, ascending for order=asc and descending for order=desc; among
\* tasks of equal priority by due_date ascending and then by created_at
\* descending, whatever the order.
C11_PrioritySort ==
    (last.op = "list_active" /\ AskedSort = "priority" /\ AskedOrder \in {"asc", "desc"}) =>
        \A i, j \in 1..Len(last.result) :
            i < j =>
                /\ AskedOrder = "asc" => Weight(Listed(i)) <= Weight(Listed(j))
                /\ AskedOrder = "desc" => Weight(Listed(i)) >= Weight(Listed(j))
                /\ (/\ Listed(i).priority = Listed(j).priority
                    /\ Listed(i).due_date # NULL /\ Listed(j).due_date # NULL)
                        => Listed(i).due_date <= Listed(j).due_date
                /\ (/\ Listed(i).priority = Listed(j).priority
                    /\ Listed(i).due_date = Listed(j).due_date)
                        => Listed(i).created_at >= Listed(j).created_at

\* a descending priority sort listed two tasks of one priority, the earlier due
\* date first
C11_Witness ==
    /\ last.op = "list_active" /\ last.params.sort = "priority" /\ last.params.order = "desc"
    /\ Len(last.result) = 2
    /\ Listed(1).priority = Listed(2).priority
    /\ Listed(1).due_date # NULL /\ Listed(1).due_date < Listed(2).due_date

\* C12: with sort=due_date, which is also the sort of a request that names
\* none: for order=asc every task with a due date comes before every task
\* without one and the dated tasks are in ascending due_date; for order=desc
\* every task without a due date comes before every task with one and the
\* dated tasks are in descending due_date; in both, tasks equal in due_date are
\* in descending created_at.
C12_DueDateSort ==
    (last.op = "list_active" /\ AskedSort = "due_date" /\ AskedOrder \in {"asc", "desc"}) =>
        \A i, j \in 1..Len(last.result) :
            i < j =>
                /\ AskedOrder = "asc" =>
                        /\ Listed(i).due_date = NULL => Listed(j).due_date = NULL
                        /\ (Listed(i).due_date # NULL /\ Listed(j).due_date # NULL)
                                => Listed(i).due_date <= Listed(j).due_date
                /\ AskedOrder = "desc" =>
                        /\ Listed(j).due_date = NULL => Listed(i).due_date = NULL
                        /\ (Listed(i).due_date # NULL /\ Listed(j).due_date # NULL)
                                => Listed(i).due_date >= Listed(j).due_date
                /\ Listed(i).due_date = Listed(j).due_date
                        => Listed(i).created_at >= Listed(j).created_at

\* a request without sort and order listed a dated task before an undated one
\* that was made earlier
C12_Witness ==
    /\ last.op = "list_active" /\ last.params.sort = NoParam /\ last.params.order = NoParam
    /\ Len(last.result) = 2
    /\ Listed(1).due_date # NULL /\ Listed(2).due_date = NULL
    /\ Listed(2).created_at < Listed(1).created_at

\* the query string of the latest list request without its status filter
WithoutStatus == [last.params EXCEPT !.status = NoParam]

\* a status value without a digit is not applied: the result is one of the
\* query without the status filter
NonDigitStatusIgnored ==
    (last.op = "list_active" /\ last.params.status = "x" /\ ~QueryRaises(WithoutStatus)) =>
        /\ last.outcome = "ok"
        /\ \E nulls_first \in BOOLEAN :
                last.result \in TaskListView_get_queryset(last.actor, WithoutStatus, nulls_first)

\* C13: a status filter value that is not an integer is ignored: the query
\* does not fail and returns what the same query without the status filter
\* returns, in the same order.
C13_NonIntegerStatusIgnored ==
    (/\ last.op = "list_active" /\ last.params.status \in {"x", "sup2"}
     /\ ~QueryRaises(WithoutStatus)) =>
        /\ last.outcome = "ok"
        /\ \E nulls_first \in BOOLEAN :
                last.result \in TaskListView_get_queryset(last.actor, WithoutStatus, nulls_first)

\* the names a category form accepts, among those the requests send
ValidNames == {n \in CategoryNameInputs : n # <<>>}

\* C14: create(owner, name) fails with DuplicateName and leaves the categories
\* as they are exactly when owner has a category of that name already,
\* whatever other users have; otherwise it adds one category of owner with
\* that name. No user ever has two categories of one name.
C14_CreateDuplicateName ==
    /\ \A owner \in Users, name \in ValidNames :
            LET r == CategoryCreateView_response(owner, name)
                has == \E k \in DOMAIN cats : cats[k].user = owner /\ cats[k].name = name
            IN  IF has
                THEN r.outcome = "DuplicateName" /\ r.cats = cats
                ELSE /\ r.outcome = "ok"
                     /\ r.pk \notin DOMAIN cats
                     /\ DOMAIN r.cats = DOMAIN cats \cup {r.pk}
                     /\ r.cats[r.pk] = [user |-> owner, name |-> name]
                     /\ \A k \in DOMAIN cats : r.cats[k] = cats[k]
    /\ \A j, k \in DOMAIN cats :
            (j # k /\ cats[j].user = cats[k].user) => cats[j].name # cats[k].name

\* a user made a category under a name that another user has too
C14_Witness ==
    /\ last.op = "category_create" /\ last.outcome = "ok"
    /\ \E k \in DOMAIN cats :
            /\ k # last.pk
            /\ cats[k].name = cats[last.pk].name
            /\ cats[k].user # last.actor

\* C15: rename(category, new_name) by the owner fails with DuplicateName and
\* leaves the categories as they are when another category of the owner has
\* new_name; it succeeds, giving the category that name and changing no other,
\* when no other category of the owner has it: so when new_name is the name
\* the category has already, and when only other users have it.
C15_RenameDuplicateName ==
    \A pk \in DOMAIN cats, new_name \in ValidNames :
        LET owner == cats[pk].user
            r == CategoryUpdateView_response(owner, pk, new_name)
            clash == \E k \in DOMAIN cats :
                        k # pk /\ cats[k].user = owner /\ cats[k].name = new_name
        IN  /\ clash => (r.outcome = "DuplicateName" /\ r.cats = cats)
            /\ ~clash => /\ r.outcome = "ok"
                         /\ DOMAIN r.cats = DOMAIN cats
                         /\ r.cats[pk] = [user |-> owner, name |-> new_name]
                         /\ \A k \in DOMAIN cats : k # pk => r.cats[k] = cats[k]
            /\ new_name = cats[pk].name => r.outcome = "ok"
            /\ (\A k \in DOMAIN cats : cats[k].name = new_name => cats[k].user # owner)
                    => r.outcome = "ok"

\* a rename was refused for the name of another category of the same user
C15_Witness ==
    /\ last.outcome = "DuplicateName" /\ last.target = "own"
    /\ \E j, k \in DOMAIN cats : j # k /\ cats[j].user = cats[k].user

\* every task's category is absent or the pk of a stored category
ReferencesHold ==
    \A t \in DOMAIN tasks : tasks[t].category = NULL \/ tasks[t].category \in DOMAIN cats

\* C16: in every state each task's category is absent or the id of a category
\* that exists; delete(category) removes the category and in the same step
\* clears the category of every task that referenced it, active or
\* soft-deleted, and removes no task.
C16_CategoryReferencesExist ==
    /\ []ReferencesHold
    /\ [][last'.op = "category_delete" =>
            /\ last'.pk \in DOMAIN cats /\ last'.pk \notin DOMAIN cats'
            /\ DOMAIN tasks' = DOMAIN tasks
            /\ \A t \in DOMAIN tasks :
                    IF tasks[t].category = last'.pk
                    THEN tasks'[t].category = NULL
                    ELSE tasks'[t] = tasks[t]]_vars

\* the category of a soft-deleted task was deleted and the task is still
\* stored, without a category
C16_Witness ==
    /\ last.op = "category_delete" /\ last.outcome = "ok"
    /\ last.pk \in DOMAIN SeedCats
    /\ \E t \in DOMAIN tasks :
            /\ tasks[t].is_deleted /\ tasks[t].category = NULL
            /\ tasks[t].created_at = SeedTask.created_at

\* a task that both states hold and the step changed has a later updated_at
ChangedTasksAdvance ==
    \A t \in (DOMAIN tasks) \cap (DOMAIN tasks') :
        tasks'[t] # tasks[t] => tasks'[t].updated_at > tasks[t].updated_at

\* the requests that go through Task.save() advance updated_at of the task
\* they change
SaveAdvancesUpdatedAt ==
    [][last'.op # "category_delete" => ChangedTasksAdvance]_vars

\* C17: every operation that changes a stored attribute of a task advances
\* that task's updated_at: edit, status update, complete, soft_delete, restore
\* and the clearing of the category reference by the deletion of the category.
C17_EveryChangeAdvancesUpdatedAt ==
    [][ChangedTasksAdvance]_vars

\* a request without a session to an endpoint of a view class with
\* LoginRequiredMixin is answered with the redirect to the login page
MixinRedirects ==
    (last.actor = Anonymous /\ last.op # "complete") => last.outcome = "login_redirect"

\* C18: a request without an authenticated user to any task or category
\* endpoint is redirected to the login page and changes no task and no
\* category.
C18_AnonymousIsRedirected ==
    /\ [](last.actor = Anonymous => last.outcome = "login_redirect")
    /\ [][last'.actor = Anonymous => (tasks' = tasks /\ cats' = cats)]_vars

\* the query string of the latest list request without its priority filter
WithoutPriority == [last.params EXCEPT !.priority = NoParam]

\* a priority value outside the choices is compared with the column like any
\* other: no task has it and the list is empty
UnknownPriorityMatchesNothing ==
    (/\ last.op = "list_active" /\ Given(last.params.priority)
     /\ last.params.priority \notin PRIORITY_CHOICES /\ last.outcome = "ok") =>
        last.result = <<>>

\* C19: a priority filter value that is none of none, low, medium, high is
\* ignored: the query returns the tasks that the same query without the
\* priority filter returns.
C19_UnknownPriorityIgnored ==
    (/\ last.op = "list_active" /\ Given(last.params.priority)
     /\ last.params.priority \notin PRIORITY_CHOICES /\ last.outcome = "ok") =>
        \E nulls_first \in BOOLEAN :
            last.result \in TaskListView_get_queryset(last.actor, WithoutPriority, nulls_first)

\* the latest list request was one of the lists that params can give
ListedAs(params) ==
    \E nulls_first \in BOOLEAN :
        last.result \in TaskListView_get_queryset(last.actor, params, nulls_first)

\* the query string of the latest list request with another order
WithOrder(order) == [last.params EXCEPT !.order = order]

\* the order values that the view compares with
KnownOrders == {"asc", "desc"}

\* the sort keys whose branch tests order == 'desc': any other order is
\* ascending
ElseBranchDefaultsAscending ==
    (/\ last.op = "list_active" /\ last.params.sort \in {"title", "status", "created_at"}
     /\ last.params.order # NoParam /\ last.params.order \notin KnownOrders) =>
        ListedAs(WithOrder("asc"))

\* the sort keys whose branch tests order == 'asc': any other order is
\* descending
AscBranchDefaultsDescending ==
    (/\ last.op = "list_active" /\ last.params.sort \in {"priority", "due_date"}
     /\ last.params.order # NoParam /\ last.params.order \notin KnownOrders) =>
        ListedAs(WithOrder("desc"))

\* C20: an order value other than asc and desc is taken as asc for every
\* recognized sort key (due_date, title, status, priority, created_at): the
\* result is ordered as that of the same query with order=asc.
C20_UnknownOrderIsAscending ==
    (/\ last.op = "list_active" /\ last.params.sort \in valid_sort_keys
     /\ last.params.order # NoParam /\ last.params.order \notin KnownOrders) =>
        ListedAs(WithOrder("asc"))

\* C21: a purge does not race destructively with restore, soft_delete,
\* complete or status update of the same task: in every interleaving in which
\* the purge removed task X, X is not in the store once both requests have
\* finished; the late save does not make the row again.
C21_PurgedStaysGone ==
    pending = {} => purged \cap DOMAIN tasks = {}

\* every task with a category has a category of its own owner
CategoryOfOwner ==
    \A t \in DOMAIN tasks :
        tasks[t].category # NULL =>
            /\ Exists(cats, tasks[t].category)
            /\ cats[tasks[t].category].user = tasks[t].user

\* the form of user u does not accept the id of a category of another user
ForeignCategoryRejected ==
    \A u \in Users, f \in TaskFormInputs :
        (f.category # NULL /\ Exists(cats, f.category) /\ cats[f.category].user # u)
            => ~TaskFormValid(u, f)

\* C22: in every state every task that has a category references a category
\* owned by the task's own owner; the task form of a user rejects the id of
\* another user's category as a validation error, and a request answered with
\* a validation error stores nothing.
C22_CategoryOfOwner ==
    /\ [](CategoryOfOwner /\ ForeignCategoryRejected)
    /\ [][last'.outcome = "invalid" => (tasks' = tasks /\ cats' = cats)]_vars

\* a user stored a task under a category of their own while another user has
\* a category too
C22_Witness ==
    /\ last.op \in {"create", "edit"} /\ last.outcome = "ok"
    /\ tasks[last.pk].category # NULL
    /\ \E k \in DOMAIN cats : cats[k].user # last.actor

\* the queryset of the edit and the detail view holds no soft-deleted task:
\* for such a pk get_object raises Http404
SoftDeletedIsNotFound ==
    \A u \in Users, pk \in DOMAIN tasks :
        tasks[pk].is_deleted => pk \notin ActiveQueryset(u)

\* the step left every task that was soft-deleted as it was
SoftDeletedUnchanged ==
    \A t \in DOMAIN tasks :
        tasks[t].is_deleted => (t \in DOMAIN tasks' /\ tasks'[t] = tasks[t])

\* edit and detail change no soft-deleted task
EditAndDetailSkipSoftDeleted ==
    [][last'.op \in {"edit", "detail"} => SoftDeletedUnchanged]_vars

\* C23: while a task is soft-deleted, edit and detail treat it as NotFound, and
\* complete and status update aimed at it leave its status and every other
\* attribute as they are: none of the four changes a soft-deleted task.
C23_SoftDeletedIsFrozen ==
    /\ []SoftDeletedIsNotFound
    /\ [][last'.op \in {"edit", "detail", "complete", "update_status"}
            => SoftDeletedUnchanged]_vars

====
